---- MODULE Spec2Model ----
(***************************************************************************)
(* The knowledge-base upload widget (UploadArea) and its service functions *)
(* (UploadService.ts), the tool selection (toolUtils.ts), ToolConfigModal, *)
(* the chat sidebar (chatLeftSidebar.tsx) and GuideSteps as state machines.*)
(*                                                                         *)
(* JavaScript runs one callback at a time, so every handler, effect and    *)
(* continuation of an async function is one atomic action.  A React render *)
(* of the component is not modelled as a step of its own: a state setter   *)
(* writes the state variable, and the passive effects whose dependencies   *)
(* changed are the actions PrevFileListEffect, ScopeEffect and NameEffect, *)
(* run in their order of declaration.  While the effects of a prop change  *)
(* are pending (FlushPending) no event handler runs and no parent render   *)
(* happens; the continuation of a name-existence check may run, because    *)
(* React runs passive effects later than the render that scheduled them.   *)
(***************************************************************************)
EXTENDS Integers, Sequences, FiniteSets, TLC

\* ---------------------------------------------------------------- bounds
MaxRequests == 2      \* AbortControllers alive (not aborted) at once
MaxUploads  == 1      \* customUploadRequest invocations over a run
MaxFiles    == 1      \* entries of a file list
MaxChecks   == 2      \* name-existence checks awaiting their answer
MaxStem     == 1      \* characters of a file name before its suffix
MaxSelected == 3      \* entries of a file list given to handleChange for its file selection
MaxParams   == 2      \* init parameters of a tool
MaxLoads    == 2      \* loadToolConfig calls awaiting searchToolConfig at once
MaxTitle    == 2      \* characters of a conversation title being edited
MaxDialogs  == 2      \* conversations in the list given to categorizeDialogs

Scopes == {"", "A", "B"}          \* values of the indexName prop
Names  == {"", "N", "M"}             \* values of the newKnowledgeBaseName prop
Thrown == {"none", "AbortError", "Error"}   \* what the try body of fetchKnowledgeBaseInfo throws

\* UploadFile entries: a file the user picked carries its raw File (1) while it uploads
\* and after; an entry without a raw File (0) is one that was never uploaded from here.
FileEntry == {[status |-> "uploading", originFileObj |-> 1],
              [status |-> "done", originFileObj |-> 1],
              [status |-> "done", originFileObj |-> 0]}
FileLists == UNION {[1..n -> FileEntry] : n \in 0..MaxFiles}

VARIABLES
    indexName, isCreatingMode, newKnowledgeBaseName,  \* props of the last render
    unmounted,
    scopeDeps, nameDeps,          \* dependencies of the last run of each effect, <<>> before the first
    fileList, nameExists, isLoading, isKnowledgeBaseReady,
    currentKnowledgeBaseRef, pendingRequestRef, prevFileListRef,
    controllers,                  \* the AbortControllers not aborted yet, oldest first: the scope each was made for
    scopeCleanup,                 \* the last run of the scope effect returned its cleanup
    rendered,                     \* <<indexName, isCreatingMode>> of every render: the handleChange closures
    uploads,                      \* customUploadRequest invocations
    nameChecks,                   \* checkName invocations awaiting their answer: [name, isActive,
                                  \* changed]; changed is a ghost: the name or the creating-mode
                                  \* flag was changed by a render after the check was made
    checkCall,                    \* the checkName invocation that finished last and what it did,
                                  \* NoCheck after any later render, effect run or unmount
    changeOut,                    \* what the last handleChange call did: whether it set the list,
                                  \* its onUpload calls, the files it gave onFileSelect (<<>>: no call)
    fetchCall,                    \* the fetchKnowledgeBaseInfo call of the last run of the scope effect
                                  \* and what it did, NoCall if that run made none
    gateCall,                     \* a validateFileType call: the file it is given and what it did
    toolCall,                     \* a handleToolSelectCommon call: its arguments, where it is,
                                  \* what the services answered and what it did
    modal,                        \* ToolConfigModal: its props (isOpen, tool, mainAgentId), the
                                  \* dependencies of the last run of its effect, its state
    loads,                        \* loadToolConfig calls awaiting searchToolConfig: the tool of each
    loadCall,                     \* the loadToolConfig call that settled last and what it did,
                                  \* NoLoad after any later render, effect run or edit
    saveCall,                     \* the last handleSave call: where it is and what it did,
                                  \* NoSave after any later render, effect run or edit once
                                  \* it has returned
    sidebar,                      \* ChatSidebar state: editingId, editingTitle,
                                  \* isDeleteDialogOpen, dialogToDelete
    sidebarCall,                  \* the last ChatSidebar handler call and the callbacks it
                                  \* invoked; ghosts: the id of the most recent
                                  \* handleDeleteClick, the onRename calls since the last
                                  \* handleStartEdit
    catCall,                      \* a categorizeDialogs call: the list it is given, the groups
    guideCall                     \* a getCurrentStep call of GuideSteps: its props, the step

vars == <<indexName, isCreatingMode, newKnowledgeBaseName, unmounted, scopeDeps, nameDeps,
          fileList, nameExists, isLoading, isKnowledgeBaseReady,
          currentKnowledgeBaseRef, pendingRequestRef, prevFileListRef,
          controllers, scopeCleanup, rendered, uploads, nameChecks, changeOut, fetchCall,
          checkCall, gateCall, toolCall, modal, loads, loadCall, saveCall,
          sidebar, sidebarCall, catCall, guideCall>>

\* the calls of functions outside the UploadArea component
modalVars  == <<modal, loads, loadCall, saveCall>>
pageVars   == <<sidebar, sidebarCall, catCall, guideCall>>
sideVars   == <<gateCall, toolCall, modalVars, pageVars>>

props      == <<indexName, isCreatingMode, newKnowledgeBaseName>>
widgetVars == <<fileList, nameExists, isLoading, isKnowledgeBaseReady,
                currentKnowledgeBaseRef, pendingRequestRef, controllers, scopeCleanup>>

NoCall   == [indexName |-> "", aborted |-> FALSE, thrown |-> "none", done |-> FALSE,
             onSuccess |-> FALSE, onError |-> FALSE, notified |-> FALSE, threw |-> FALSE]
NoCheck  == [answer |-> "none", isActive |-> FALSE, changed |-> FALSE, exists |-> FALSE,
             threw |-> FALSE]
NoGate   == [type |-> "", name |-> <<>>, done |-> FALSE, accepted |-> FALSE, notified |-> 0]
\* A params object maps the name of a parameter to its value; a parameter is named by
\* its position in tool.initParams; "undefined" is the value of a name the object lacks.
ParamValues == {"undefined", "null", "", "v"}
NoParams    == [k \in 1..MaxParams |-> "undefined"]
NoTool   == [pc |-> "idle", isSelected |-> FALSE, mainAgentId |-> "null", hasOnSuccess |-> FALSE,
             hasInitParams |-> FALSE, initParams |-> <<>>,
             search |-> "none", saved |-> NoParams, update |-> "none",
             shouldProceed |-> FALSE, params |-> NoParams, updateCalls |-> 0,
             updateParams |-> NoParams, onSuccess |-> 0, notified |-> 0, threw |-> FALSE]
\* ToolConfigModal before it is given a tool: closed, tool null
NoModal  == [isOpen |-> FALSE, tool |-> 0, mainAgentId |-> 0, deps |-> <<>>,
             currentParams |-> <<>>, isLoading |-> FALSE]
NoLoad   == [tool |-> 0, outcome |-> "none", saved |-> NoParams, notified |-> 0,
             threw |-> FALSE]
NoSave   == [pc |-> "idle", tool |-> 0, outcome |-> "none", updateCalls |-> 0, onSave |-> 0,
             notified |-> 0, threw |-> FALSE]
\* ChatSidebar: null is written "null", a conversation id as a string of digits
NoSidebar == [editingId |-> "null", editingTitle |-> <<>>, isDeleteDialogOpen |-> FALSE,
              dialogToDelete |-> "null"]
NoSidebarCall == [handler |-> "none", key |-> "", onRename |-> <<>>, onDelete |-> <<>>,
                  clicked |-> "null", renames |-> 0]
NoCat    == [dialogs |-> <<>>, done |-> FALSE, today |-> <<>>, week |-> <<>>, older |-> <<>>]
\* GuideSteps: a text prop is a string of blanks and letters, a list prop is known by its
\* length, currentStep is <<>> when it is no number and <<n>> when it is the number n
NoGuide  == [isCreatingNewAgent |-> FALSE, systemPrompt |-> <<>>, businessLogic |-> <<>>,
             selectedTools |-> 0, selectedAgents |-> 0, currentStep |-> <<>>,
             agentName |-> <<>>, agentDescription |-> <<>>, done |-> FALSE, step |-> 0]
NoChange == [called |-> FALSE, applied |-> FALSE, onUpload |-> 0, onFileSelect |-> <<>>]

\* ------------------------------------------------------ state after construction
InitComponent ==
    /\ indexName \in Scopes
    /\ isCreatingMode \in BOOLEAN
    /\ newKnowledgeBaseName \in Names
    /\ unmounted = FALSE
    /\ scopeDeps = <<>>
    /\ nameDeps = <<>>
    /\ fileList = <<>>
    /\ nameExists = FALSE
    /\ isLoading = FALSE
    /\ isKnowledgeBaseReady = FALSE
    /\ currentKnowledgeBaseRef = ""
    /\ pendingRequestRef = 0
    /\ prevFileListRef = <<>>
    /\ controllers = <<>>
    /\ scopeCleanup = FALSE
    /\ rendered = {<<indexName, isCreatingMode>>}
    /\ uploads = <<>>
    /\ nameChecks = <<>>
    /\ changeOut = NoChange
    /\ checkCall = NoCheck

GateIdle == gateCall = NoGate
ToolIdle == toolCall = NoTool
ModalIdle ==
    /\ modal = NoModal
    /\ loads = <<>>
    /\ loadCall = NoLoad
    /\ saveCall = NoSave
SidebarIdle == sidebar = NoSidebar /\ sidebarCall = NoSidebarCall
CatIdle   == catCall = NoCat
GuideIdle == guideCall = NoGuide
PageIdle  == SidebarIdle /\ CatIdle /\ GuideIdle

Init ==
    /\ InitComponent
    /\ fetchCall = NoCall
    /\ GateIdle
    /\ ToolIdle
    /\ ModalIdle
    /\ PageIdle

ScopeDepsNow == <<indexName, isCreatingMode>>
NameDepsNow  == <<isCreatingMode, newKnowledgeBaseName>>

Mounted      == ~unmounted /\ scopeDeps # <<>> /\ nameDeps # <<>>
FlushPending == ~unmounted /\ (scopeDeps # ScopeDepsNow \/ nameDeps # NameDepsNow)

\* ------------------------------------------------------ fetchKnowledgeBaseInfo
\* The async function has no await: its body runs to the end inside the call.
\* thrown is what the try body (the onSuccess callback) throws, "none" if nothing.
FetchKnowledgeBaseInfo_NoScopeCheck(idx, aborted, current, thrown) ==
    LET called  == ~aborted
        caught  == called /\ thrown # "none"
        handled == caught /\ thrown # "AbortError"
    IN  [onSuccess |-> called, onError |-> handled, notified |-> handled, threw |-> FALSE]

FetchKnowledgeBaseInfo(idx, aborted, current, thrown) ==
    LET called  == ~aborted /\ idx = current
        caught  == called /\ thrown # "none"
        handled == caught /\ thrown # "AbortError" /\ idx = current
    IN  [onSuccess |-> called, onError |-> handled, notified |-> handled, threw |-> FALSE]

\* The callbacks UploadArea passes: onSuccess, then onError if it ran.
ApplyResolution_ErrorKeepsLoading(r, flags) ==
    LET s == IF r.onSuccess THEN [isKnowledgeBaseReady |-> TRUE, isLoading |-> FALSE] ELSE flags
    IN  IF r.onError THEN [isKnowledgeBaseReady |-> FALSE, isLoading |-> TRUE] ELSE s

ApplyResolution(r, flags) ==
    LET s == IF r.onSuccess THEN [isKnowledgeBaseReady |-> TRUE, isLoading |-> FALSE] ELSE flags
    IN  IF r.onError THEN [isKnowledgeBaseReady |-> FALSE, isLoading |-> FALSE] ELSE s

\* ------------------------------------------------------ the scope-change effect
Remove(s, k) == [j \in 1..(Len(s) - 1) |-> IF j < k THEN s[j] ELSE s[j + 1]]

\* abort() of the pending controller, which leaves the controllers alive
AbortPending_OnlyForgets(ctrls, pending) ==
    [controllers |-> ctrls, pendingRequestRef |-> 0]

AbortPending(ctrls, pending) ==
    IF pending # 0
    THEN [controllers |-> Remove(ctrls, pending), pendingRequestRef |-> 0]
    ELSE [controllers |-> ctrls, pendingRequestRef |-> pending]

ResetAllStates_KeepsFiles ==
    [fileList |-> fileList, nameExists |-> FALSE, isLoading |-> TRUE, isKnowledgeBaseReady |-> FALSE]

ResetAllStates ==
    [fileList |-> <<>>, nameExists |-> FALSE, isLoading |-> TRUE, isKnowledgeBaseReady |-> FALSE]

ScopeUnchanged(idx, current) == idx = current

ResolvesLocally(idx, creating) == idx = "" \/ creating

\* ghost: an unfinished upload saw the current scope differ from its target
NoteScope(ups, current) ==
    [k \in 1..Len(ups) |->
        IF ups[k].pc # "done" /\ ups[k].eff # current
        THEN [ups[k] EXCEPT !.differed = TRUE] ELSE ups[k]]

ScopeEffect ==
    /\ ~unmounted
    /\ fileList = prevFileListRef
    /\ scopeDeps # ScopeDepsNow
    /\ scopeDeps' = ScopeDepsNow
    /\ LET c1 == IF scopeCleanup THEN AbortPending(controllers, pendingRequestRef)
                 ELSE [controllers |-> controllers, pendingRequestRef |-> pendingRequestRef]
       IN  IF ScopeUnchanged(indexName, currentKnowledgeBaseRef)
           THEN /\ controllers' = c1.controllers
                /\ pendingRequestRef' = c1.pendingRequestRef
                /\ scopeCleanup' = FALSE
                /\ fetchCall' = NoCall
                /\ UNCHANGED <<fileList, nameExists, isLoading, isKnowledgeBaseReady,
                               currentKnowledgeBaseRef, uploads>>
           ELSE LET c2 == AbortPending(c1.controllers, c1.pendingRequestRef)
                    rs == ResetAllStates
                IN  /\ fileList' = rs.fileList
                    /\ nameExists' = rs.nameExists
                    /\ currentKnowledgeBaseRef' = indexName
                    /\ uploads' = NoteScope(uploads, indexName)
                    /\ IF ResolvesLocally(indexName, isCreatingMode)
                       THEN /\ isKnowledgeBaseReady' = TRUE
                            /\ isLoading' = FALSE
                            /\ controllers' = c2.controllers
                            /\ pendingRequestRef' = c2.pendingRequestRef
                            /\ scopeCleanup' = FALSE
                            /\ fetchCall' = NoCall
                       ELSE LET r == FetchKnowledgeBaseInfo(indexName, FALSE, indexName, "none")
                                f == ApplyResolution(r, [isKnowledgeBaseReady |-> rs.isKnowledgeBaseReady,
                                                         isLoading |-> rs.isLoading])
                            IN  /\ controllers' = Append(c2.controllers, indexName)
                                /\ pendingRequestRef' = Len(c2.controllers) + 1
                                /\ isKnowledgeBaseReady' = f.isKnowledgeBaseReady
                                /\ isLoading' = f.isLoading
                                /\ scopeCleanup' = TRUE
                                /\ fetchCall' = [indexName |-> indexName, aborted |-> FALSE,
                                                 thrown |-> "none", done |-> TRUE,
                                                 onSuccess |-> r.onSuccess, onError |-> r.onError,
                                                 notified |-> r.notified, threw |-> r.threw]
    /\ UNCHANGED <<props, unmounted, nameDeps, prevFileListRef, rendered, nameChecks, changeOut,
                   checkCall, sideVars>>

\* ------------------------------------------------------ prevFileListRef effect
PrevFileListEffect ==
    /\ ~unmounted
    /\ fileList # prevFileListRef
    /\ prevFileListRef' = fileList
    /\ UNCHANGED <<props, unmounted, scopeDeps, nameDeps, widgetVars, rendered, uploads,
                   nameChecks, changeOut, fetchCall, checkCall, sideVars>>

\* ------------------------------------------------------ name-existence effect
Deactivate_Keeps(checks) == checks

Deactivate(checks) == [k \in 1..Len(checks) |-> [checks[k] EXCEPT !.isActive = FALSE]]

NameEffect ==
    /\ ~unmounted
    /\ scopeDeps = ScopeDepsNow
    /\ nameDeps # NameDepsNow
    /\ nameDeps' = NameDepsNow
    /\ IF ~isCreatingMode \/ newKnowledgeBaseName = ""
       THEN /\ nameExists' = FALSE
            /\ nameChecks' = Deactivate(nameChecks)
       ELSE /\ nameChecks' = Append(Deactivate(nameChecks),
                                    [name |-> newKnowledgeBaseName, isActive |-> TRUE,
                                     changed |-> FALSE])
            /\ UNCHANGED nameExists
    /\ checkCall' = NoCheck
    /\ UNCHANGED <<props, unmounted, scopeDeps, fileList, isLoading, isKnowledgeBaseReady,
                   currentKnowledgeBaseRef, pendingRequestRef, prevFileListRef, controllers,
                   scopeCleanup, rendered, uploads, changeOut, fetchCall, sideVars>>

\* checkKnowledgeBaseNameExists: the service answers true or false, or throws; the
\* catch block turns a throw into the answer false
NameExistsResult_FailClosed(answer) == IF answer = "throw" THEN TRUE ELSE answer = "true"

NameExistsResult(answer) == IF answer = "throw" THEN FALSE ELSE answer = "true"

\* The service call is awaited inside the try block: nothing it throws leaves the function.
NameCheckThrows(answer) == FALSE

\* the continuation of checkName after its await
NameCheckDone(k, answer) ==
    /\ k \in 1..Len(nameChecks)
    /\ LET exists == NameExistsResult(answer)
           threw  == NameCheckThrows(answer)
       IN  /\ nameExists' = IF nameChecks[k].isActive /\ ~threw THEN exists ELSE nameExists
           /\ checkCall' = [answer |-> answer, isActive |-> nameChecks[k].isActive,
                            changed |-> nameChecks[k].changed, exists |-> exists,
                            threw |-> threw]
    /\ nameChecks' = Remove(nameChecks, k)
    /\ UNCHANGED <<props, unmounted, scopeDeps, nameDeps, fileList, isLoading,
                   isKnowledgeBaseReady, currentKnowledgeBaseRef, pendingRequestRef,
                   prevFileListRef, controllers, scopeCleanup, rendered, uploads, changeOut,
                   fetchCall, sideVars>>

\* ------------------------------------------------------ the parent re-renders
SetProps(i, c, n) ==
    /\ Mounted
    /\ ~FlushPending
    /\ <<i, c, n>> # props
    /\ (~ScopeUnchanged(i, currentKnowledgeBaseRef) /\ ~ResolvesLocally(i, c))
           => Len(controllers) < MaxRequests
    /\ (<<c, n>> # NameDepsNow /\ c /\ n # "") => Len(nameChecks) < MaxChecks
    /\ indexName' = i
    /\ isCreatingMode' = c
    /\ newKnowledgeBaseName' = n
    /\ rendered' = rendered \cup {<<i, c>>}
    /\ nameChecks' = IF <<c, n>> # NameDepsNow
                     THEN [k \in 1..Len(nameChecks) |-> [nameChecks[k] EXCEPT !.changed = TRUE]]
                     ELSE nameChecks
    /\ checkCall' = NoCheck
    /\ UNCHANGED <<unmounted, scopeDeps, nameDeps, widgetVars, prevFileListRef, uploads,
                   changeOut, fetchCall, sideVars>>

Unmount ==
    /\ Mounted
    /\ ~FlushPending
    /\ unmounted' = TRUE
    /\ LET c1 == IF scopeCleanup THEN AbortPending(controllers, pendingRequestRef)
                 ELSE [controllers |-> controllers, pendingRequestRef |-> pendingRequestRef]
       IN  /\ controllers' = c1.controllers
           /\ pendingRequestRef' = c1.pendingRequestRef
    /\ scopeCleanup' = FALSE
    /\ nameChecks' = Deactivate(nameChecks)
    /\ checkCall' = NoCheck
    /\ UNCHANGED <<props, scopeDeps, nameDeps, fileList, nameExists, isLoading,
                   isKnowledgeBaseReady, currentKnowledgeBaseRef, prevFileListRef,
                   rendered, uploads, changeOut, fetchCall, sideVars>>

\* ------------------------------------------------------ handleChange
ChangeApplies_Always(creating, scope, current) == TRUE

ChangeApplies(creating, scope, current) == creating \/ scope = current

HasUploading(fl) == \E k \in 1..Len(fl) : fl[k].status = "uploading"

UploadJustFinished(prev, new) == HasUploading(prev) /\ Len(new) > 0 /\ ~HasUploading(new)

RawFiles_Reversed(fl) ==
    LET withRaw == SelectSeq(fl, LAMBDA e : e.originFileObj # 0)
    IN  [k \in 1..Len(withRaw) |-> withRaw[Len(withRaw) + 1 - k].originFileObj]

RawFiles(fl) ==
    LET withRaw == SelectSeq(fl, LAMBDA e : e.originFileObj # 0)
    IN  [k \in 1..Len(withRaw) |-> withRaw[k].originFileObj]

\* cl is the closure of the render whose handleChange is called; onUpload is supplied
HandleChange(cl, newFileList) ==
    /\ Mounted
    /\ ~FlushPending
    /\ cl \in rendered
    /\ IF ChangeApplies(cl[2], cl[1], currentKnowledgeBaseRef)
       THEN /\ fileList' = newFileList
            /\ changeOut' = [called |-> TRUE, applied |-> TRUE,
                             onUpload |-> IF UploadJustFinished(prevFileListRef, newFileList)
                                          THEN 1 ELSE 0,
                             onFileSelect |-> RawFiles(newFileList)]
       ELSE /\ changeOut' = [NoChange EXCEPT !.called = TRUE]
            /\ UNCHANGED fileList
    /\ UNCHANGED <<props, unmounted, scopeDeps, nameDeps, nameExists, isLoading,
                   isKnowledgeBaseReady, currentKnowledgeBaseRef, pendingRequestRef,
                   prevFileListRef, controllers, scopeCleanup, rendered, uploads, nameChecks,
                   fetchCall, checkCall, sideVars>>

\* ------------------------------------------------------ customUploadRequest
ScopeSwitched(eff, creating, current) == eff # current /\ ~creating

CatchReports_Always(eff, creating, current) == TRUE

CatchReports(eff, creating, current) == eff = current \/ creating

EffectiveIndexName(idx, creating, name) == IF creating THEN name ELSE idx

\* fetch (line 40) and response.json() (line 53) are awaited inside the try block of
\* lines 39-66, whose catch block throws nothing
UploadThrows_NoCatch(failure) == failure = "throw"

UploadThrows(failure) == FALSE

\* A finished invocation: what it told its caller and the user.
\*   failure    the transport outcome: "none", "notok" (non-ok response), "throw"
\*   staleAtEnd ghost: the target differed from the current scope when it finished
Finish(t, success, error, shown, failure, current) ==
    [t EXCEPT !.pc = "done", !.onSuccess = success, !.onError = error, !.notified = shown,
              !.failure = failure,
              !.threw = UploadThrows(failure),
              !.differed = t.differed \/ t.eff # current,
              !.staleAtEnd = t.eff # current]

UploadSubmit(i, c, n) ==
    /\ Len(uploads) < MaxUploads
    /\ ~FlushPending
    /\ LET eff == EffectiveIndexName(i, c, n)
           t   == [eff |-> eff, creating |-> c, pc |-> "fetch", onSuccess |-> 0,
                   onError |-> "none", notified |-> "none", failure |-> "none",
                   differed |-> eff # currentKnowledgeBaseRef, staleAtEnd |-> FALSE,
                   threw |-> FALSE]
       IN  uploads' = Append(uploads,
                IF ScopeSwitched(eff, c, currentKnowledgeBaseRef)
                THEN Finish(t, 0, "switched", "switched", "none", currentKnowledgeBaseRef)
                ELSE t)
    /\ UNCHANGED <<props, unmounted, scopeDeps, nameDeps, widgetVars, prevFileListRef,
                   rendered, nameChecks, changeOut, fetchCall, checkCall, sideVars>>

\* fetch resolved with a response
UploadResponse(k, ok) ==
    /\ k \in 1..Len(uploads)
    /\ uploads[k].pc = "fetch"
    /\ ~FlushPending
    /\ LET t == uploads[k]
       IN  uploads' = [uploads EXCEPT ![k] =
                IF ScopeSwitched(t.eff, t.creating, currentKnowledgeBaseRef)
                THEN Finish(t, 0, "switched", "switched", IF ok THEN "none" ELSE "notok",
                            currentKnowledgeBaseRef)
                ELSE IF ok THEN [t EXCEPT !.pc = "json"]
                ELSE Finish(t, 0, "failed", "failed", "notok", currentKnowledgeBaseRef)]
    /\ UNCHANGED <<props, unmounted, scopeDeps, nameDeps, widgetVars, prevFileListRef,
                   rendered, nameChecks, changeOut, fetchCall, checkCall, sideVars>>

\* response.json() resolved
UploadParsed(k) ==
    /\ k \in 1..Len(uploads)
    /\ uploads[k].pc = "json"
    /\ ~FlushPending
    /\ uploads' = [uploads EXCEPT ![k] =
                      Finish(uploads[k], 1, "none", "none", "none", currentKnowledgeBaseRef)]
    /\ UNCHANGED <<props, unmounted, scopeDeps, nameDeps, widgetVars, prevFileListRef,
                   rendered, nameChecks, changeOut, fetchCall, checkCall, sideVars>>

\* fetch or response.json() rejected: the catch block
UploadThrew(k) ==
    /\ k \in 1..Len(uploads)
    /\ uploads[k].pc \in {"fetch", "json"}
    /\ ~FlushPending
    /\ LET t == uploads[k]
       IN  uploads' = [uploads EXCEPT ![k] =
                IF CatchReports(t.eff, t.creating, currentKnowledgeBaseRef)
                THEN Finish(t, 0, "failed", "failed", "throw", currentKnowledgeBaseRef)
                ELSE Finish(t, 0, "none", "none", "throw", currentKnowledgeBaseRef)]
    /\ UNCHANGED <<props, unmounted, scopeDeps, nameDeps, widgetVars, prevFileListRef,
                   rendered, nameChecks, changeOut, fetchCall, checkCall, sideVars>>

\* ------------------------------------------------------ specifications
\* The widget alone: prop changes, its effects, the name check, unmount.
NextWidget ==
    \/ ScopeEffect
    \/ NameEffect
    \/ \E k \in 1..MaxChecks, a \in {"true", "false", "throw"} : NameCheckDone(k, a)
    \/ \E i \in Scopes, c \in BOOLEAN, n \in Names : SetProps(i, c, n)
    \/ Unmount

Next == NextWidget

Spec == Init /\ [][Next]_vars

\* newKnowledgeBaseName left at its default, so that no name check is made
InitDefaultName ==
    /\ Init
    /\ newKnowledgeBaseName = ""

\* The widget with file uploads through customUploadRequest.  The handlers left out
\* (handleChange, the prevFileListRef effect, the name check) write none of the variables
\* the upload reads.
NextUpload ==
    \/ ScopeEffect
    \/ NameEffect
    \/ \E i \in Scopes, c \in BOOLEAN : SetProps(i, c, newKnowledgeBaseName)
    \/ Unmount
    \/ \E i \in Scopes, c \in BOOLEAN, n \in Names \ {""} : UploadSubmit(i, c, n)
    \/ \E k \in 1..MaxUploads, ok \in BOOLEAN : UploadResponse(k, ok)
    \/ \E k \in 1..MaxUploads : UploadParsed(k)
    \/ \E k \in 1..MaxUploads : UploadThrew(k)

SpecUpload == InitDefaultName /\ [][NextUpload]_vars

\* The widget with file-list changes.  The upload transport and the name check left out
\* write none of the variables handleChange reads; unmount is left out because no
\* handleChange call is modelled after it.
NextFiles ==
    \/ ScopeEffect
    \/ NameEffect
    \/ \E i \in Scopes, c \in BOOLEAN : SetProps(i, c, newKnowledgeBaseName)
    \/ PrevFileListEffect
    \/ \E cl \in rendered, fl \in FileLists : HandleChange(cl, fl)

SpecFiles == InitDefaultName /\ [][NextFiles]_vars

\* handleChange on lists whose entries carry distinct raw Files (0: none).  The file
\* selection reads the list it is given and nothing else, so the props stay as mounted and
\* prevFileListRef as constructed.
RawIds      == {1, 2}
SelectEntry == [status : {"uploading", "done"}, originFileObj : RawIds]
                   \cup {[status |-> "done", originFileObj |-> 0]}
SelectLists == UNION {[1..n -> SelectEntry] : n \in 0..MaxSelected}

NextSelect ==
    \/ ScopeEffect
    \/ NameEffect
    \/ \E fl \in SelectLists : HandleChange(<<indexName, isCreatingMode>>, fl)

SpecSelect == InitDefaultName /\ [][NextSelect]_vars

\* fetchKnowledgeBaseInfo on every input: any tagged scope, any state of the controller,
\* any current scope and flags, any exception out of the try body
FetchInputs ==
    [indexName : Scopes, aborted : BOOLEAN, thrown : Thrown, done : {FALSE},
     onSuccess : {FALSE}, onError : {FALSE}, notified : {FALSE}, threw : {FALSE}]

FetchKnowledgeBaseInfoCall ==
    /\ ~fetchCall.done
    /\ LET r == FetchKnowledgeBaseInfo(fetchCall.indexName, fetchCall.aborted,
                                       currentKnowledgeBaseRef, fetchCall.thrown)
           f == ApplyResolution(r, [isKnowledgeBaseReady |-> isKnowledgeBaseReady,
                                    isLoading |-> isLoading])
       IN  /\ fetchCall' = [fetchCall EXCEPT !.done = TRUE, !.onSuccess = r.onSuccess,
                                             !.onError = r.onError, !.notified = r.notified,
                                             !.threw = r.threw]
           /\ isKnowledgeBaseReady' = f.isKnowledgeBaseReady
           /\ isLoading' = f.isLoading
    /\ UNCHANGED <<props, unmounted, scopeDeps, nameDeps, fileList, nameExists,
                   currentKnowledgeBaseRef, pendingRequestRef, prevFileListRef, controllers,
                   scopeCleanup, rendered, uploads, nameChecks, changeOut, checkCall, sideVars>>

InitFetch ==
    /\ indexName \in Scopes
    /\ isCreatingMode = FALSE
    /\ newKnowledgeBaseName = ""
    /\ unmounted = FALSE
    /\ scopeDeps = <<>>
    /\ nameDeps = <<>>
    /\ fileList = <<>>
    /\ nameExists = FALSE
    /\ isLoading \in BOOLEAN
    /\ isKnowledgeBaseReady \in BOOLEAN
    /\ currentKnowledgeBaseRef \in Scopes
    /\ pendingRequestRef = 0
    /\ prevFileListRef = <<>>
    /\ controllers = <<>>
    /\ scopeCleanup = FALSE
    /\ rendered = {<<indexName, isCreatingMode>>}
    /\ uploads = <<>>
    /\ nameChecks = <<>>
    /\ changeOut = NoChange
    /\ checkCall = NoCheck
    /\ fetchCall \in FetchInputs
    /\ GateIdle
    /\ ToolIdle
    /\ ModalIdle
    /\ PageIdle

NextFetch == FetchKnowledgeBaseInfoCall

SpecFetch == InitFetch /\ [][NextFetch]_vars

\* ------------------------------------------------------ validateFileType
\* A file name is the sequence of its characters, a media type is a string compared as a whole.
ValidTypes ==
    {"application/pdf",
     "application/vnd.openxmlformats-officedocument.wordprocessingml.document",
     "application/vnd.openxmlformats-officedocument.presentationml.presentation",
     "application/vnd.openxmlformats-officedocument.spreadsheetml.sheet",
     "text/markdown", "text/plain", "text/csv", "application/csv"}

UpperCase == <<"A", "B", "C", "D", "E", "F", "G", "H", "I", "J", "K", "L", "M",
               "N", "O", "P", "Q", "R", "S", "T", "U", "V", "W", "X", "Y", "Z">>
LowerCase == <<"a", "b", "c", "d", "e", "f", "g", "h", "i", "j", "k", "l", "m",
               "n", "o", "p", "q", "r", "s", "t", "u", "v", "w", "x", "y", "z">>

ToLowerCase(name) ==
    [k \in 1..Len(name) |->
        IF \E i \in 1..Len(UpperCase) : UpperCase[i] = name[k]
        THEN LowerCase[CHOOSE i \in 1..Len(UpperCase) : UpperCase[i] = name[k]]
        ELSE name[k]]

EndsWith(name, suffix) ==
    /\ Len(suffix) <= Len(name)
    /\ SubSeq(name, Len(name) - Len(suffix) + 1, Len(name)) = suffix

Suffix_md       == <<".", "m", "d">>
Suffix_markdown == <<".", "m", "a", "r", "k", "d", "o", "w", "n">>
Suffix_csv      == <<".", "c", "s", "v">>

ValidateFileType_Silent(file) ==
    LET byType == file.type \in ValidTypes
        name   == ToLowerCase(file.name)
        byName == \/ EndsWith(name, Suffix_md)
                  \/ EndsWith(name, Suffix_markdown)
                  \/ EndsWith(name, Suffix_csv)
        isValidType == byType \/ (~byType /\ byName)
    IN  [accepted |-> isValidType, notified |-> 0]

ValidateFileType(file) ==
    LET byType == file.type \in ValidTypes
        name   == ToLowerCase(file.name)
        byName == \/ EndsWith(name, Suffix_md)
                  \/ EndsWith(name, Suffix_markdown)
                  \/ EndsWith(name, Suffix_csv)
        isValidType == byType \/ (~byType /\ byName)
    IN  [accepted |-> isValidType, notified |-> IF isValidType THEN 0 ELSE 1]

\* the files the gate is checked on
MediaTypes == ValidTypes \cup {"", "image/png", "application/msword", "application/octet-stream"}
Stems      == {[k \in 1..n |-> "a"] : n \in 0..MaxStem}
Endings ==
    {<<>>, <<"m", "d">>,
     <<".", "m", "d">>, <<".", "M", "D">>, <<".", "m", "d", "x">>,
     <<".", "m", "d", ".", "p", "n", "g">>,
     <<".", "m", "a", "r", "k", "d", "o", "w", "n">>,
     <<".", "c", "s", "v">>, <<".", "C", "s", "v">>,
     <<".", "p", "d", "f">>, <<".", "d", "o", "c", "x">>, <<".", "p", "p", "t", "x">>,
     <<".", "x", "l", "s", "x">>, <<".", "t", "x", "t">>, <<".", "p", "n", "g">>}
FileNames  == {st \o e : st \in Stems, e \in Endings}

GateInputs == [type : MediaTypes, name : FileNames, done : {FALSE}, accepted : {FALSE},
               notified : {0}]

ValidateFileTypeCall ==
    /\ ~gateCall.done
    /\ LET r == ValidateFileType(gateCall)
       IN  gateCall' = [gateCall EXCEPT !.done = TRUE, !.accepted = r.accepted,
                                        !.notified = r.notified]
    /\ UNCHANGED <<props, unmounted, scopeDeps, nameDeps, widgetVars, prevFileListRef, rendered,
                   uploads, nameChecks, changeOut, fetchCall, checkCall, toolCall, modalVars,
                   pageVars>>

InitGate ==
    /\ InitComponent
    /\ indexName = ""
    /\ isCreatingMode = FALSE
    /\ newKnowledgeBaseName = ""
    /\ fetchCall = NoCall
    /\ gateCall \in GateInputs
    /\ ToolIdle
    /\ ModalIdle
    /\ PageIdle

NextGate == ValidateFileTypeCall

SpecGate == InitGate /\ [][NextGate]_vars

\* ------------------------------------------------------ handleToolSelectCommon
\* pc: "call" before the call, "search" while searchToolConfig is awaited, "update" while
\* updateToolConfig is awaited, "done" once the function has returned.
\* search: "none" until searchToolConfig settles, then "ok" (success with data.params an
\* object, saved), "empty" (success without data.params), "fail" (success false), "throw".
MainAgentIds == {"null", "", "7"}
Falsy(id)    == id \in {"null", "undefined", ""}

ToolParams == [required : BOOLEAN, value : ParamValues]
InitParamLists == UNION {[1..n -> ToolParams] : n \in 0..MaxParams}
SavedParams == [1..MaxParams -> ParamValues]

\* the reduce of lines 31-36
DefaultParams(initParams) ==
    [k \in 1..MaxParams |-> IF k <= Len(initParams) THEN initParams[k].value ELSE "undefined"]

IsMissing_OnlyUndefined(value) == value = "undefined"

IsMissing(value) == value \in {"undefined", "", "null"}

MissingRequiredFields(initParams, params) ==
    {k \in 1..Len(initParams) : initParams[k].required /\ IsMissing(params[k])}

ToolReturn(t, proceed, params, shown) ==
    [t EXCEPT !.pc = "done", !.shouldProceed = proceed, !.params = params,
              !.notified = t.notified + shown]

ToolInputs ==
    {[NoTool EXCEPT !.pc = "call", !.isSelected = sel, !.mainAgentId = id,
                    !.hasOnSuccess = cb, !.hasInitParams = TRUE, !.initParams = ps] :
        sel \in BOOLEAN, id \in MainAgentIds, cb \in BOOLEAN, ps \in InitParamLists}
    \cup
    {[NoTool EXCEPT !.pc = "call", !.isSelected = sel, !.mainAgentId = id, !.hasOnSuccess = cb] :
        sel \in BOOLEAN, id \in MainAgentIds, cb \in BOOLEAN}

\* lines 11-18: up to the await of searchToolConfig
HandleToolSelectCommon ==
    /\ toolCall.pc = "call"
    /\ toolCall' = IF Falsy(toolCall.mainAgentId)
                   THEN ToolReturn(toolCall, FALSE, NoParams, 1)
                   ELSE [toolCall EXCEPT !.pc = "search"]
    /\ UNCHANGED <<props, unmounted, scopeDeps, nameDeps, widgetVars, prevFileListRef, rendered,
                   uploads, nameChecks, changeOut, fetchCall, checkCall, gateCall, modalVars,
                   pageVars>>

\* lines 18-56: searchToolConfig settled, up to the await of updateToolConfig
ToolSearchSettled(outcome, saved) ==
    /\ toolCall.pc = "search"
    /\ outcome \in {"ok", "empty", "fail", "throw"}
    /\ outcome # "ok" => saved = NoParams
    /\ LET t      == [toolCall EXCEPT !.search = outcome, !.saved = saved]
           params == IF outcome = "ok" THEN saved ELSE DefaultParams(t.initParams)
       IN  toolCall' =
             IF outcome = "throw" THEN ToolReturn(t, FALSE, NoParams, 1)
             ELSE IF outcome = "fail" THEN ToolReturn(t, FALSE, NoParams, 1)
             ELSE IF /\ t.isSelected
                     /\ t.hasInitParams
                     /\ Len(t.initParams) > 0
                     /\ MissingRequiredFields(t.initParams, params) # {}
                  THEN ToolReturn(t, FALSE, params, 0)
             ELSE [t EXCEPT !.pc = "update", !.params = params,
                            !.updateCalls = t.updateCalls + 1, !.updateParams = params]
    /\ UNCHANGED <<props, unmounted, scopeDeps, nameDeps, widgetVars, prevFileListRef, rendered,
                   uploads, nameChecks, changeOut, fetchCall, checkCall, gateCall, modalVars,
                   pageVars>>

\* updateResult.success
UpdateSucceeded_Returned(outcome) == outcome \in {"ok", "fail"}

UpdateSucceeded(outcome) == outcome = "ok"

\* lines 58-71: updateToolConfig settled
ToolUpdateSettled(outcome) ==
    /\ toolCall.pc = "update"
    /\ outcome \in {"ok", "fail", "throw"}
    /\ LET t == [toolCall EXCEPT !.update = outcome]
       IN  toolCall' =
             IF outcome = "throw" THEN ToolReturn(t, FALSE, NoParams, 1)
             ELSE IF UpdateSucceeded(outcome)
                  THEN ToolReturn([t EXCEPT !.onSuccess = IF t.hasOnSuccess THEN 1 ELSE 0],
                                  TRUE, t.params, 0)
             ELSE ToolReturn(t, FALSE, t.params, 1)
    /\ UNCHANGED <<props, unmounted, scopeDeps, nameDeps, widgetVars, prevFileListRef, rendered,
                   uploads, nameChecks, changeOut, fetchCall, checkCall, gateCall, modalVars,
                   pageVars>>

InitTool ==
    /\ InitComponent
    /\ indexName = ""
    /\ isCreatingMode = FALSE
    /\ newKnowledgeBaseName = ""
    /\ fetchCall = NoCall
    /\ GateIdle
    /\ toolCall \in ToolInputs
    /\ ModalIdle
    /\ PageIdle

NextTool ==
    \/ HandleToolSelectCommon
    \/ \E o \in {"ok", "empty", "fail", "throw"}, saved \in SavedParams : ToolSearchSettled(o, saved)
    \/ \E o \in {"ok", "fail", "throw"} : ToolUpdateSettled(o)

SpecTool == InitTool /\ [][NextTool]_vars

\* ------------------------------------------------------ ToolConfigModal
\* The tools the modal is opened for, by number (0: null), each with its initParams.
ModalTools ==
    << <<[required |-> TRUE, value |-> ""], [required |-> FALSE, value |-> "v"]>>,
       <<[required |-> TRUE, value |-> "v"]>> >>

areaVars == <<props, unmounted, scopeDeps, nameDeps, widgetVars, prevFileListRef, rendered,
              uploads, nameChecks, changeOut, fetchCall, checkCall>>

ModalDepsNow == <<modal.isOpen, modal.tool, modal.mainAgentId>>

\* the record of a handleSave call that has returned is dropped
Forget(call) == IF call.pc = "update" THEN call ELSE NoSave

\* the parent renders the modal with other props
ModalSetProps(isOpen, tool) ==
    /\ modal.deps = ModalDepsNow
    /\ <<isOpen, tool>> # <<modal.isOpen, modal.tool>>
    /\ (isOpen /\ tool # 0) => Len(loads) < MaxLoads
    /\ modal' = [modal EXCEPT !.isOpen = isOpen, !.tool = tool]
    /\ loadCall' = NoLoad
    /\ saveCall' = Forget(saveCall)
    /\ UNCHANGED <<areaVars, pageVars, gateCall, toolCall, loads>>

\* the effect of lines 187-244, up to the await of searchToolConfig
ModalEffect ==
    /\ modal.deps # ModalDepsNow
    /\ IF modal.isOpen /\ modal.tool # 0 /\ modal.mainAgentId # 0
       THEN /\ modal' = [modal EXCEPT !.deps = ModalDepsNow, !.isLoading = TRUE]
            /\ loads' = Append(loads, modal.tool)
       ELSE /\ modal' = [modal EXCEPT !.deps = ModalDepsNow, !.currentParams = <<>>]
            /\ UNCHANGED loads
    /\ loadCall' = NoLoad
    /\ saveCall' = Forget(saveCall)
    /\ UNCHANGED <<areaVars, pageVars, gateCall, toolCall>>

\* lines 196-204: the saved value of each init parameter, its default if none is saved
SavedOrDefault_SavedOnly(initParams, saved) ==
    [k \in 1..Len(initParams) |-> [initParams[k] EXCEPT !.value = saved[k]]]

SavedOrDefault(initParams, saved) ==
    [k \in 1..Len(initParams) |->
        [initParams[k] EXCEPT !.value = IF saved[k] # "undefined" THEN saved[k] ELSE @]]

\* searchToolConfig is awaited inside the try block of lines 191-231
LoadThrows(outcome) == FALSE

\* lines 192-231: searchToolConfig settled for the k-th pending load; saved holds the
\* stored value of each init parameter of the tool, "undefined" where none is stored
ModalLoadSettled(k, outcome, saved) ==
    /\ k \in 1..Len(loads)
    /\ outcome \in {"ok", "empty", "fail", "throw"}
    /\ outcome # "ok" => saved = NoParams
    /\ \A j \in 1..MaxParams : j > Len(ModalTools[loads[k]]) => saved[j] = "undefined"
    /\ LET initParams == ModalTools[loads[k]]
           shown      == IF outcome \in {"fail", "throw"} THEN 1 ELSE 0
       IN  /\ modal' = [modal EXCEPT !.isLoading = FALSE,
                                     !.currentParams = IF outcome = "ok"
                                                       THEN SavedOrDefault(initParams, saved)
                                                       ELSE initParams]
           /\ loadCall' = [tool |-> loads[k], outcome |-> outcome, saved |-> saved,
                           notified |-> shown, threw |-> LoadThrows(outcome)]
    /\ loads' = Remove(loads, k)
    /\ saveCall' = Forget(saveCall)
    /\ UNCHANGED <<areaVars, pageVars, gateCall, toolCall>>

\* handleParamChange, lines 261-265
HandleParamChange(index, value) ==
    /\ modal.deps = ModalDepsNow
    /\ index \in 1..Len(modal.currentParams)
    /\ modal.currentParams[index].value # value
    /\ modal' = [modal EXCEPT !.currentParams[index].value = value]
    /\ loadCall' = NoLoad
    /\ saveCall' = Forget(saveCall)
    /\ UNCHANGED <<areaVars, pageVars, gateCall, toolCall, loads>>

\* checkRequiredFields, lines 247-259, for a tool that is not null
RequiredFieldsFilled_Always(currentParams) == TRUE

RequiredFieldsFilled(currentParams) ==
    \A k \in 1..Len(currentParams) :
        ~(currentParams[k].required /\ IsMissing(currentParams[k].value))

\* handleSave up to the await of updateToolConfig, lines 267-285; one call at a time.
\* isEnabled (line 278) only goes into the request.
HandleSave ==
    /\ modal.deps = ModalDepsNow
    /\ saveCall.pc # "update"
    /\ LET call == [NoSave EXCEPT !.tool = modal.tool]
       IN  saveCall' =
             IF modal.tool = 0 THEN [call EXCEPT !.pc = "done"]
             ELSE IF ~RequiredFieldsFilled(modal.currentParams)
                  THEN [call EXCEPT !.pc = "done", !.notified = 1]
             ELSE [call EXCEPT !.pc = "update", !.updateCalls = 1]
    /\ UNCHANGED <<areaVars, pageVars, gateCall, toolCall, modal, loads, loadCall>>

\* updateToolConfig is awaited inside the try block of lines 270-299
SaveThrows(outcome) == FALSE

\* lines 287-299: updateToolConfig settled
ModalSaveSettled(outcome) ==
    /\ saveCall.pc = "update"
    /\ outcome \in {"ok", "fail", "throw"}
    /\ saveCall' = [saveCall EXCEPT !.pc = "done", !.outcome = outcome,
                                    !.onSave = IF UpdateSucceeded(outcome) THEN 1 ELSE 0,
                                    !.notified = IF UpdateSucceeded(outcome) THEN 0 ELSE 1,
                                    !.threw = SaveThrows(outcome)]
    /\ UNCHANGED <<areaVars, pageVars, gateCall, toolCall, modal, loads, loadCall>>

ModalInputs == {[NoModal EXCEPT !.mainAgentId = id] : id \in {0, 7}}

InitModal ==
    /\ InitComponent
    /\ indexName = ""
    /\ isCreatingMode = FALSE
    /\ newKnowledgeBaseName = ""
    /\ fetchCall = NoCall
    /\ GateIdle
    /\ ToolIdle
    /\ PageIdle
    /\ modal \in ModalInputs
    /\ loads = <<>>
    /\ loadCall = NoLoad
    /\ saveCall = NoSave

NextModal ==
    \/ \E isOpen \in BOOLEAN, tool \in 0..Len(ModalTools) : ModalSetProps(isOpen, tool)
    \/ ModalEffect
    \/ \E k \in 1..MaxLoads :
           /\ k <= Len(loads)
           /\ \/ \E saved \in SavedParams : ModalLoadSettled(k, "ok", saved)
              \/ \E o \in {"empty", "fail", "throw"} : ModalLoadSettled(k, o, NoParams)
    \/ \E index \in 1..MaxParams, value \in ParamValues : HandleParamChange(index, value)
    \/ HandleSave
    \/ \E o \in {"ok", "fail", "throw"} : ModalSaveSettled(o)

SpecModal == InitModal /\ [][NextModal]_vars

\* ------------------------------------------------------ every operation that awaits
\* customUploadRequest, checkKnowledgeBaseNameExists and fetchKnowledgeBaseInfo (on every
\* input) of UploadArea, handleToolSelectCommon, and the load and save of ToolConfigModal.
\* UploadArea, the tool selection and the modal work on separate state, so a behaviour
\* runs one of them and leaves the others as constructed.  A behaviour of UploadArea
\* with newKnowledgeBaseName '' (no name check is made then) submits one upload among
\* scope changes and an unmount; one with another name checks that name.
AreaIdle ==
    /\ InitComponent
    /\ props = <<"", FALSE, "">>
    /\ fetchCall = NoCall

\* fetchKnowledgeBaseInfo called on its own, outside a mounted component
FetchRun == scopeDeps = <<>> /\ fetchCall # NoCall

\* The tool selection awaits the same two calls whatever the number of init parameters;
\* one parameter is enough to reach the missing-required-field return.
InitBoundary ==
    \/ Init
    \/ InitFetch /\ fetchCall # NoCall
    \/ InitTool /\ Len(toolCall.initParams) <= 1
    \/ InitModal

NextArea ==
    \/ ScopeEffect
    \/ NameEffect
    \/ \E k \in 1..MaxChecks, a \in {"true", "false", "throw"} : NameCheckDone(k, a)
    \/ /\ newKnowledgeBaseName = ""
       /\ \/ \E i \in Scopes, c \in BOOLEAN : SetProps(i, c, newKnowledgeBaseName)
          \/ Unmount
          \/ /\ uploads = <<>>
             /\ \E i \in Scopes, c \in BOOLEAN, n \in Names \ {""} : UploadSubmit(i, c, n)
    \/ \E k \in 1..MaxUploads, ok \in BOOLEAN : UploadResponse(k, ok)
    \/ \E k \in 1..MaxUploads : UploadParsed(k)
    \/ \E k \in 1..MaxUploads : UploadThrew(k)

NextBoundary ==
    \/ ToolIdle /\ ModalIdle /\ ~FetchRun /\ NextArea
    \/ FetchRun /\ FetchKnowledgeBaseInfoCall
    \/ AreaIdle /\ ModalIdle /\ NextTool
    \/ AreaIdle /\ ToolIdle /\ NextModal

SpecBoundary == InitBoundary /\ [][NextBoundary]_vars

\* ------------------------------------------------------ ChatSidebar: rename and delete
\* Conversation ids ("0" is an id like any other) and the titles typed into the edit
\* Input: strings of blanks and letters.
ConversationIds == {"0", "7"}
TitleChars      == {" ", "a"}
Titles          == UNION {[1..n -> TitleChars] : n \in 0..MaxTitle}

\* String.prototype.trim
Trim(t) ==
    IF \A k \in 1..Len(t) : t[k] = " "
    THEN <<>>
    ELSE SubSeq(t, CHOOSE i \in 1..Len(t) : t[i] # " " /\ \A j \in 1..(i - 1) : t[j] = " ",
                   CHOOSE i \in 1..Len(t) : t[i] # " " /\ \A j \in (i + 1)..Len(t) : t[j] = " ")

notSidebar == <<areaVars, gateCall, toolCall, modalVars, catCall, guideCall>>

\* what a handler call leaves behind: the handler the event called (and the key, for
\* handleKeyDown), the callbacks it invoked, and the ghosts
Called(handler, key, rename, delete) ==
    [handler |-> handler, key |-> key, onRename |-> rename, onDelete |-> delete,
     clicked |-> sidebarCall.clicked,
     renames |-> sidebarCall.renames + IF rename = <<>> THEN 0 ELSE 1]

\* lines 115-128; the timer of lines 122-127 only moves the focus
HandleStartEdit(dialogId, title) ==
    /\ sidebar' = [sidebar EXCEPT !.editingId = dialogId, !.editingTitle = title]
    /\ sidebarCall' = [Called("handleStartEdit", "", <<>>, <<>>) EXCEPT !.renames = 0]
    /\ UNCHANGED notSidebar

\* onChange of the edit Input, line 198
SetEditingTitle(title) ==
    /\ sidebar.editingTitle # title
    /\ sidebar' = [sidebar EXCEPT !.editingTitle = title]
    /\ sidebarCall' = Called("setEditingTitle", "", <<>>, <<>>)
    /\ UNCHANGED notSidebar

\* the condition of line 132
SubmitApplies_AnyTitle(editingId, editingTitle) == editingId # "null"

SubmitApplies(editingId, editingTitle) == editingId # "null" /\ Trim(editingTitle) # <<>>

\* lines 131-136
SubmitEdit(handler, key) ==
    IF SubmitApplies(sidebar.editingId, sidebar.editingTitle)
    THEN /\ sidebarCall' = Called(handler, key,
                                  <<sidebar.editingId, Trim(sidebar.editingTitle)>>, <<>>)
         /\ sidebar' = [sidebar EXCEPT !.editingId = "null"]
    ELSE /\ sidebarCall' = Called(handler, key, <<>>, <<>>)
         /\ UNCHANGED sidebar

\* the blur of the edit Input, line 200
HandleSubmitEdit ==
    /\ SubmitEdit("handleSubmitEdit", "")
    /\ UNCHANGED notSidebar

\* lines 139-141
CancelEdit(handler, key) ==
    /\ sidebar' = [sidebar EXCEPT !.editingId = "null"]
    /\ sidebarCall' = Called(handler, key, <<>>, <<>>)

\* lines 144-150
HandleKeyDown(key) ==
    /\ IF key = "Enter" THEN SubmitEdit("handleKeyDown", key)
       ELSE IF key = "Escape" THEN CancelEdit("handleKeyDown", key)
       ELSE /\ sidebarCall' = Called("handleKeyDown", key, <<>>, <<>>)
            /\ UNCHANGED sidebar
    /\ UNCHANGED notSidebar

\* lines 153-158
HandleDeleteClick(dialogId) ==
    /\ sidebar' = [sidebar EXCEPT !.dialogToDelete = dialogId, !.isDeleteDialogOpen = TRUE]
    /\ sidebarCall' = [Called("handleDeleteClick", "", <<>>, <<>>) EXCEPT !.clicked = dialogId]
    /\ UNCHANGED notSidebar

\* the condition of line 162
ConfirmApplies_Always(dialogToDelete) == TRUE

ConfirmApplies(dialogToDelete) == dialogToDelete # "null"

\* lines 161-167
ConfirmDelete ==
    /\ IF ConfirmApplies(sidebar.dialogToDelete)
       THEN /\ sidebarCall' = Called("confirmDelete", "", <<>>, <<sidebar.dialogToDelete>>)
            /\ sidebar' = [sidebar EXCEPT !.isDeleteDialogOpen = FALSE, !.dialogToDelete = "null"]
       ELSE /\ sidebarCall' = Called("confirmDelete", "", <<>>, <<>>)
            /\ UNCHANGED sidebar
    /\ UNCHANGED notSidebar

\* the cancel button (line 422) and the Dialog's onOpenChange (line 413); the Dialog has
\* no trigger, so it asks only to be closed
CancelDelete ==
    /\ sidebar' = [sidebar EXCEPT !.isDeleteDialogOpen = FALSE]
    /\ sidebarCall' = Called("cancelDelete", "", <<>>, <<>>)
    /\ UNCHANGED notSidebar

\* The handlers are taken as callable in every state, also where the element that calls
\* them is not rendered.
InitSidebar ==
    /\ Init
    /\ props = <<"", FALSE, "">>

NextSidebar ==
    \/ \E id \in ConversationIds, t \in Titles : HandleStartEdit(id, t)
    \/ \E t \in Titles : SetEditingTitle(t)
    \/ HandleSubmitEdit
    \/ \E key \in {"Enter", "Escape", "a"} : HandleKeyDown(key)
    \/ \E id \in ConversationIds : HandleDeleteClick(id)
    \/ ConfirmDelete
    \/ CancelDelete

SpecSidebar == InitSidebar /\ [][NextSidebar]_vars

\* ------------------------------------------------------ categorizeDialogs
\* Times are counted in days.  Today is the start of the day of the call (line 39);
\* a time of 0 stands for a time that is not there (undefined, null or 0: what the ||
\* of line 47 passes over).
Today   == 10
Week    == 7
WeekAgo == Today - Week
Times   == {WeekAgo - 1, WeekAgo, Today - 1, Today}

\* a conversation is known by its place in the list it came in
Dialogs(n) ==
    {d \in [1..n -> [conversation_id : 1..n, update_time : Times \cup {0}, create_time : Times]] :
        \A k \in 1..n : d[k].conversation_id = k}
DialogLists == UNION {Dialogs(n) : n \in 0..MaxDialogs}

\* line 47
DialogTime(dialog) == IF dialog.update_time # 0 THEN dialog.update_time ELSE dialog.create_time

\* lines 49-55
Group_WeekExclusive(dialog) ==
    IF DialogTime(dialog) >= Today THEN "today"
    ELSE IF DialogTime(dialog) > WeekAgo THEN "week"
    ELSE "older"

Group(dialog) ==
    IF DialogTime(dialog) >= Today THEN "today"
    ELSE IF DialogTime(dialog) >= WeekAgo THEN "week"
    ELSE "older"

\* lines 42-63: the forEach pushes each conversation to the end of the list of its group
RECURSIVE CategorizeFrom(_, _, _)
CategorizeFrom(dialogs, k, groups) ==
    IF k > Len(dialogs) THEN groups
    ELSE LET g == Group(dialogs[k])
         IN  CategorizeFrom(dialogs, k + 1, [groups EXCEPT ![g] = Append(@, dialogs[k])])

CategorizeDialogs(dialogs) ==
    CategorizeFrom(dialogs, 1, [today |-> <<>>, week |-> <<>>, older |-> <<>>])

CategorizeDialogsCall ==
    /\ ~catCall.done
    /\ LET r == CategorizeDialogs(catCall.dialogs)
       IN  catCall' = [catCall EXCEPT !.done = TRUE, !.today = r.today, !.week = r.week,
                                      !.older = r.older]
    /\ UNCHANGED <<areaVars, gateCall, toolCall, modalVars, sidebar, sidebarCall, guideCall>>

InitCategorize ==
    /\ InitComponent
    /\ props = <<"", FALSE, "">>
    /\ fetchCall = NoCall
    /\ GateIdle
    /\ ToolIdle
    /\ ModalIdle
    /\ SidebarIdle
    /\ GuideIdle
    /\ catCall \in {[NoCat EXCEPT !.dialogs = d] : d \in DialogLists}

NextCategorize == CategorizeDialogsCall

SpecCategorize == InitCategorize /\ [][NextCategorize]_vars

\* ------------------------------------------------------ GuideSteps
Prompts     == {<<>>, <<" ">>, <<"a">>}
AgentTexts  == {<<>>, <<" ">>, <<"a">>, <<" ", "a">>}
ListLengths == {0, 1, 2}
StepNumbers == {<<n>> : n \in 0..5}

\* agentName.trim() && agentDescription.trim(), line 99
BasicInfoFilled_NotTrimmed(agentName, agentDescription) ==
    agentName # <<>> /\ agentDescription # <<>>

BasicInfoFilled(agentName, agentDescription) ==
    Trim(agentName) # <<>> /\ Trim(agentDescription) # <<>>

\* lines 93-109
GetCurrentStep(g) ==
    IF g.isCreatingNewAgent
    THEN IF g.systemPrompt # <<>> THEN 4
         ELSE IF g.businessLogic # <<>> THEN 3
         ELSE IF g.selectedTools > 0 THEN 2
         ELSE IF BasicInfoFilled(g.agentName, g.agentDescription) THEN 1
         ELSE 0
    ELSE IF g.systemPrompt # <<>> THEN 4
         ELSE IF g.businessLogic # <<>> THEN 3
         ELSE IF g.selectedTools > 0 THEN 2
         ELSE IF g.selectedAgents > 0 THEN 1
         ELSE 0

\* line 112
ShownStep(g) == IF g.currentStep # <<>> THEN g.currentStep[1] ELSE GetCurrentStep(g)

GuideInputs ==
    {[NoGuide EXCEPT !.isCreatingNewAgent = c, !.systemPrompt = sp, !.businessLogic = bl,
                     !.selectedTools = st, !.selectedAgents = sa, !.currentStep = cs,
                     !.agentName = an, !.agentDescription = ad] :
        c \in BOOLEAN, sp \in Prompts, bl \in Prompts, st \in ListLengths, sa \in ListLengths,
        cs \in {<<>>} \cup StepNumbers, an \in AgentTexts, ad \in AgentTexts}

\* a render of GuideSteps
GuideStepsRender ==
    /\ ~guideCall.done
    /\ guideCall' = [guideCall EXCEPT !.done = TRUE, !.step = ShownStep(guideCall)]
    /\ UNCHANGED <<areaVars, gateCall, toolCall, modalVars, sidebar, sidebarCall, catCall>>

InitGuide ==
    /\ InitComponent
    /\ props = <<"", FALSE, "">>
    /\ fetchCall = NoCall
    /\ GateIdle
    /\ ToolIdle
    /\ ModalIdle
    /\ SidebarIdle
    /\ CatIdle
    /\ guideCall \in GuideInputs

NextGuide == GuideStepsRender

SpecGuide == InitGuide /\ [][NextGuide]_vars

\* ================================================================ claims
ScopeEffectRan == scopeDeps' # scopeDeps

\* C1: a resolution that arrives for a scope that is no longer the current one (its
\* request aborted or not, its try body throwing or not) leaves ReadinessFlag and the
\* loading flag as they are, calls neither callback and shows no error: the result is
\* applied only if its scope equals currentKnowledgeBaseRef when it arrives.
C1_StaleResolutionDiscarded ==
    [][(~fetchCall.done /\ fetchCall'.done /\ fetchCall.indexName # currentKnowledgeBaseRef)
        => /\ isKnowledgeBaseReady' = isKnowledgeBaseReady
           /\ isLoading' = isLoading
           /\ ~fetchCall'.onSuccess /\ ~fetchCall'.onError /\ ~fetchCall'.notified]_vars

C1_Witness ==
    /\ fetchCall.done
    /\ ~fetchCall.aborted
    /\ fetchCall.indexName = "A"
    /\ currentKnowledgeBaseRef = "B"
    /\ isLoading
    /\ ~isKnowledgeBaseReady

\* C2: at most one AbortController is alive (not aborted) at any time, and it is the one
\* pendingRequestRef holds: a new request is started only after the previous one was
\* aborted and dropped.
C2_AtMostOneInFlight ==
    /\ Len(controllers) <= 1
    /\ pendingRequestRef = Len(controllers)

C2_Witness ==
    /\ <<"A", FALSE>> \in rendered
    /\ indexName = "B"
    /\ controllers = <<"B">>
    /\ pendingRequestRef = 1

\* C3: when the supplied scope becomes empty or the component enters creating mode, the
\* scope effect leaves ReadinessFlag true and loading false and starts no request.
C3_LocalScopeReadyAtOnce ==
    [][(/\ ScopeEffectRan
        /\ scopeDeps # <<>>
        /\ \/ scopeDeps[1] # "" /\ indexName = ""
           \/ ~scopeDeps[2] /\ isCreatingMode)
        => /\ isKnowledgeBaseReady'
           /\ ~isLoading'
           /\ pendingRequestRef' = 0
           /\ fetchCall' = NoCall]_vars

\* C4 (as claimed): a scope change to a scope other than lastSeenScope aborts the pending
\* request, empties the file list, sets lastSeenScope, and, for a non-empty scope outside
\* creating mode, starts exactly one request tagged with the new scope and leaves
\* ReadinessFlag false and loading true.
C4_ScopeChangeLeavesLoading ==
    [][(ScopeEffectRan /\ indexName # currentKnowledgeBaseRef)
        => /\ fileList' = <<>>
           /\ currentKnowledgeBaseRef' = indexName
           /\ IF indexName = "" \/ isCreatingMode
              THEN controllers' = <<>> /\ pendingRequestRef' = 0
              ELSE /\ controllers' = <<indexName>>
                   /\ pendingRequestRef' = 1
                   /\ ~isKnowledgeBaseReady'
                   /\ isLoading']_vars

\* C4 (amended): a scope change to a scope other than lastSeenScope, in one step, aborts
\* the pending request, empties the file list, clears nameExists, sets lastSeenScope, and,
\* for a non-empty scope outside creating mode, starts exactly one request tagged with the
\* new scope, whose resolution is applied within the same step: the step always ends
\* with ReadinessFlag true and loading false.
C4_ScopeChangeResetsAndResolves ==
    [][(ScopeEffectRan /\ indexName # currentKnowledgeBaseRef)
        => /\ fileList' = <<>>
           /\ nameExists' = FALSE
           /\ currentKnowledgeBaseRef' = indexName
           /\ isKnowledgeBaseReady'
           /\ ~isLoading'
           /\ IF indexName = "" \/ isCreatingMode
              THEN controllers' = <<>> /\ pendingRequestRef' = 0 /\ fetchCall' = NoCall
              ELSE /\ controllers' = <<indexName>>
                   /\ pendingRequestRef' = 1
                   /\ fetchCall'.done
                   /\ fetchCall'.indexName = indexName
                   /\ fetchCall'.onSuccess]_vars

C4_Witness ==
    /\ <<"A", FALSE>> \in rendered
    /\ currentKnowledgeBaseRef = "B"
    /\ controllers = <<"B">>
    /\ fileList = <<>>
    /\ prevFileListRef # <<>>
    /\ isKnowledgeBaseReady
    /\ ~isLoading

\* C5: a run of the scope effect with the scope equal to lastSeenScope changes neither
\* the file list, the flags, nameExists, lastSeenScope nor the pending request.
C5_SameScopeIsNoOp ==
    [][(ScopeEffectRan /\ indexName = currentKnowledgeBaseRef)
        => UNCHANGED <<fileList, isKnowledgeBaseReady, isLoading, nameExists,
                       currentKnowledgeBaseRef, pendingRequestRef, controllers>>]_vars

Finished(k) == k \in 1..Len(uploads) /\ uploads[k].pc = "done"

\* C6: a submission outside creating mode whose target differed from the current scope at
\* submission or at any time before it finished ends with the 'scope switched' error
\* and without onSuccess.
C6_SwitchedSubmissionFails ==
    \A k \in 1..MaxUploads :
        (Finished(k) /\ ~uploads[k].creating /\ uploads[k].differed)
            => uploads[k].onError = "switched" /\ uploads[k].onSuccess = 0

\* C7: a submission that ends in a transport failure (non-ok response or exception) always
\* calls onError, and shows a notification exactly when its target is the current scope
\* at that time or creating mode is on.
C7_FailureReportedShownIfCurrent ==
    \A k \in 1..MaxUploads :
        (Finished(k) /\ uploads[k].failure # "none")
            => /\ uploads[k].onError # "none"
               /\ (uploads[k].notified # "none")
                      <=> (~uploads[k].staleAtEnd \/ uploads[k].creating)

C9_UploadCompleteOncePerTransition ==
    [][\A cl \in Scopes \X BOOLEAN, fl \in FileLists :
          (HandleChange(cl, fl) /\ changeOut'.applied)
              => changeOut'.onUpload = IF UploadJustFinished(fileList, fl) THEN 1 ELSE 0]_vars

\* C10: a file-list change is applied if and only if its closure is in creating mode or
\* its scope equals lastSeenScope; a change that is not applied leaves the file list as
\* it is and calls neither onUpload nor onFileSelect.  (An applied call leaves the list
\* it was given in fileList', a discarded one does the same whatever it was given: the
\* list given is taken to be fileList'.)
C10_StaleChangeDiscarded ==
    [][\A cl \in rendered :
          \/ IF cl[2] \/ cl[1] = currentKnowledgeBaseRef
             THEN changeOut'.applied
             ELSE /\ ~changeOut'.applied
                  /\ fileList' = fileList
                  /\ changeOut'.onUpload = 0
                  /\ changeOut'.onFileSelect = <<>>
          \/ ~HandleChange(cl, fileList')]_vars

C10_Witness ==
    /\ changeOut.called
    /\ ~changeOut.applied
    /\ fileList # <<>>
    /\ ~isCreatingMode

FetchArrives == ~fetchCall.done /\ fetchCall'.done

\* C11: a resolution that arrives for the current scope: on success (the request not
\* aborted, nothing thrown) ReadinessFlag becomes true and loading false, with no error
\* shown; on a failure other than a cancellation ReadinessFlag becomes false and loading
\* false, with one error notification; on cancellation (the request aborted) no callback
\* runs, the flags stay as they are and no error is shown; an exception named AbortError
\* is never shown and never reaches onError.
C11_ResolutionOutcomes ==
    [][(FetchArrives /\ fetchCall.indexName = currentKnowledgeBaseRef)
        => /\ (~fetchCall.aborted /\ fetchCall.thrown = "none")
                => /\ isKnowledgeBaseReady' /\ ~isLoading'
                   /\ fetchCall'.onSuccess /\ ~fetchCall'.onError /\ ~fetchCall'.notified
           /\ (~fetchCall.aborted /\ fetchCall.thrown = "Error")
                => /\ ~isKnowledgeBaseReady' /\ ~isLoading'
                   /\ fetchCall'.onError /\ fetchCall'.notified
           /\ fetchCall.aborted
                => /\ UNCHANGED <<isKnowledgeBaseReady, isLoading>>
                   /\ ~fetchCall'.onSuccess /\ ~fetchCall'.onError /\ ~fetchCall'.notified
           /\ fetchCall.thrown = "AbortError"
                => ~fetchCall'.onError /\ ~fetchCall'.notified]_vars

C11_Witness ==
    /\ fetchCall.done
    /\ fetchCall.thrown = "Error"
    /\ fetchCall.indexName = currentKnowledgeBaseRef
    /\ fetchCall.onError
    /\ fetchCall.notified
    /\ ~isKnowledgeBaseReady
    /\ ~isLoading

CheckArrives == Len(nameChecks') = Len(nameChecks) - 1

NameChangeHandled == nameDeps # <<>> /\ nameDeps = NameDepsNow

\* outside creating mode or with an empty candidate name, nameExists is false once the
\* change has been handled
NoNameNoClash ==
    (NameChangeHandled /\ (~isCreatingMode \/ newKnowledgeBaseName = "")) => ~nameExists

\* C12 (as claimed): the result of a name-existence check that arrives after a render
\* changed the candidate name or the creating-mode flag, or after the component
\* unmounted, leaves nameExists as it is; and outside creating mode or with an empty
\* name, nameExists is false once the change has been handled.
C12_LateResultDiscarded ==
    /\ []NoNameNoClash
    /\ [][(CheckArrives /\ (checkCall'.changed \/ unmounted))
            => nameExists' = nameExists]_vars

\* C12 (amended): once the name-existence effect has handled a change of the candidate
\* name or of the creating-mode flag, and once the component is unmounted, every check
\* made before is inactive, and the result of an inactive check leaves nameExists as
\* it is (a result that arrives between the render and the run of the effect is still
\* applied); and outside creating mode or with an empty name, nameExists is false once
\* the change has been handled.
C12_InactiveResultDiscarded ==
    /\ []NoNameNoClash
    /\ [](\A k \in 1..Len(nameChecks) :
              (unmounted \/ (nameChecks[k].changed /\ NameChangeHandled))
                  => ~nameChecks[k].isActive)
    /\ [][(CheckArrives /\ ~checkCall'.isActive) => nameExists' = nameExists]_vars

C12_Witness ==
    /\ checkCall.answer = "true"
    /\ checkCall.changed
    /\ ~checkCall.isActive
    /\ isCreatingMode
    /\ newKnowledgeBaseName = "M"
    /\ ~nameExists
    /\ Len(nameChecks) = 1

\* C13: a name-existence check whose service call throws returns false without throwing,
\* and nameExists becomes false (if the check is still the active one).
C13_FailedCheckMeansAbsent ==
    [][(CheckArrives /\ checkCall'.answer = "throw")
        => /\ ~checkCall'.threw
           /\ ~checkCall'.exists
           /\ checkCall'.isActive => ~nameExists']_vars

C13_Witness ==
    /\ checkCall.answer = "throw"
    /\ checkCall.isActive
    /\ ~checkCall.threw
    /\ ~nameExists
    /\ isCreatingMode
    /\ newKnowledgeBaseName = "N"

\* C14 (as claimed): of every file, one with media type text/csv is accepted, one with
\* an empty media type and a name ending in .md is accepted, one with media type
\* image/png is rejected with exactly one error notification, and an accepted file
\* produces no notification.
C14_GateExamples ==
    gateCall.done =>
        /\ gateCall.type = "text/csv" => gateCall.accepted
        /\ (gateCall.type = "" /\ EndsWith(gateCall.name, Suffix_md)) => gateCall.accepted
        /\ gateCall.type = "image/png" => (~gateCall.accepted /\ gateCall.notified = 1)
        /\ gateCall.accepted => gateCall.notified = 0

NameAccepted(name) ==
    \E suffix \in {Suffix_md, Suffix_markdown, Suffix_csv} : EndsWith(ToLowerCase(name), suffix)

\* C14 (amended): of every file, one with media type text/csv is accepted, one with an
\* empty media type and a name ending in .md is accepted, one with media type image/png
\* is rejected with exactly one error notification unless its name, in lower case, ends
\* in .md, .markdown or .csv, in which case it is accepted; an accepted file produces
\* no notification.
C14_GateExamplesByName ==
    gateCall.done =>
        /\ gateCall.type = "text/csv" => gateCall.accepted
        /\ (gateCall.type = "" /\ EndsWith(gateCall.name, Suffix_md)) => gateCall.accepted
        /\ gateCall.type = "image/png"
              => IF NameAccepted(gateCall.name)
                 THEN gateCall.accepted
                 ELSE ~gateCall.accepted /\ gateCall.notified = 1
        /\ gateCall.accepted => gateCall.notified = 0

C14_Witness ==
    /\ gateCall.done
    /\ gateCall.type = "image/png"
    /\ gateCall.name = <<"a", ".", "p", "n", "g">>
    /\ ~gateCall.accepted
    /\ gateCall.notified = 1

\* the suffixes of the accepted kinds
AcceptedSuffixes ==
    {Suffix_md, Suffix_markdown, Suffix_csv,
     <<".", "p", "d", "f">>, <<".", "d", "o", "c", "x">>, <<".", "p", "p", "t", "x">>,
     <<".", "x", "l", "s", "x">>, <<".", "t", "x", "t">>}

\* C15: a file is accepted if and only if its media type is one of the accepted kinds or,
\* the media type being absent or unrecognized, its name ends in the suffix of one of the
\* accepted kinds (.pdf, .docx, .pptx, .xlsx, .md, .markdown, .txt, .csv).
C15_GateByTypeThenSuffix ==
    gateCall.done =>
        (gateCall.accepted <=>
            \/ gateCall.type \in ValidTypes
            \/ \E suffix \in AcceptedSuffixes : EndsWith(ToLowerCase(gateCall.name), suffix))

RECURSIVE RawInOrder(_)
RawInOrder(fl) ==
    IF fl = <<>> THEN <<>>
    ELSE IF Head(fl).originFileObj # 0
         THEN <<Head(fl).originFileObj>> \o RawInOrder(Tail(fl))
         ELSE RawInOrder(Tail(fl))

\* C16: an applied file-list change gives onFileSelect the raw files of the entries of
\* the new list that carry one: all of them, no other, in the order of the list.
C16_ForwardsRawFilesInOrder ==
    changeOut.applied => changeOut.onFileSelect = RawInOrder(fileList)

C16_Witness ==
    /\ changeOut.applied
    /\ Len(fileList) = 3
    /\ fileList[1].originFileObj = 2
    /\ fileList[2].originFileObj = 0
    /\ fileList[3].originFileObj = 1
    /\ changeOut.onFileSelect = <<2, 1>>

SearchSucceeded == toolCall.search \in {"ok", "empty"}

\* the saved params if the backend has any, otherwise the defaults of initParams
EffectiveParams ==
    IF toolCall.search = "ok" THEN toolCall.saved ELSE DefaultParams(toolCall.initParams)

RequiredMissing ==
    \E k \in 1..Len(toolCall.initParams) :
        toolCall.initParams[k].required /\ EffectiveParams[k] \in {"undefined", "null", ""}

C18_UpdateOnlyAfterChecks ==
    /\ toolCall.updateCalls <= 1
    /\ toolCall.updateCalls = 1
          => /\ ~Falsy(toolCall.mainAgentId)
             /\ SearchSucceeded
             /\ toolCall.updateParams = EffectiveParams
    /\ (toolCall.isSelected /\ SearchSucceeded /\ RequiredMissing) => toolCall.updateCalls = 0
    /\ (~toolCall.isSelected /\ SearchSucceeded) => toolCall.updateCalls = 1

C18_Witness ==
    /\ toolCall.pc = "done"
    /\ toolCall.isSelected
    /\ toolCall.search = "empty"
    /\ Len(toolCall.initParams) = 2
    /\ ~toolCall.initParams[1].required
    /\ toolCall.initParams[2].required
    /\ toolCall.initParams[2].value = ""
    /\ toolCall.updateCalls = 0
    /\ ~toolCall.shouldProceed

C20_ExactlyOneCallback ==
    \A k \in 1..MaxUploads :
        Finished(k)
            => \/ uploads[k].onSuccess = 1 /\ uploads[k].onError = "none"
               \/ uploads[k].onSuccess = 0 /\ uploads[k].onError # "none"

\* the parameter names of currentParams are those of the tool's initParams, in order
\* (a parameter is known here by its place and its required mark)
DerivedFrom(currentParams, initParams) ==
    /\ Len(currentParams) = Len(initParams)
    /\ \A k \in 1..Len(initParams) : currentParams[k].required = initParams[k].required

\* C21: once the load effect has run for the current props, a closed modal has empty
\* currentParams, and, when no load is pending any more, an open modal with a tool and a
\* main agent id shows currentParams derived from the initParams of that tool, never of
\* a tool opened before.
C21_ParamsFollowOpenTool ==
    modal.deps = ModalDepsNow
        => /\ ~modal.isOpen => modal.currentParams = <<>>
           /\ (modal.isOpen /\ modal.tool # 0 /\ modal.mainAgentId # 0 /\ loads = <<>>)
                  => DerivedFrom(modal.currentParams, ModalTools[modal.tool])

SaveCalled  == saveCall.pc # "update" /\ saveCall'.pc # "idle" /\ saveCall' # saveCall
SaveSettled == saveCall.pc = "update" /\ saveCall'.pc = "done"

NoRequiredMissing(currentParams) ==
    \A k \in 1..Len(currentParams) :
        currentParams[k].required => currentParams[k].value \notin {"undefined", "null", ""}

\* C22: handleSave calls updateToolConfig exactly when there is a tool and no required
\* parameter of currentParams is undefined, null or ''; a call stopped by the required
\* check makes no remote call and reports the missing fields; onSave is invoked exactly
\* when updateToolConfig answered success, never on a failure answer or an exception,
\* and the settling of the update leaves currentParams as they are.
C22_SaveOnlyAfterCheckAndSuccess ==
    /\ [](saveCall.onSave = 1 => saveCall.updateCalls = 1 /\ saveCall.outcome = "ok")
    /\ [][SaveCalled
            => /\ saveCall'.updateCalls = 1
                    <=> (modal.tool # 0 /\ NoRequiredMissing(modal.currentParams))
               /\ saveCall'.updateCalls = 0 => saveCall'.pc = "done" /\ saveCall'.onSave = 0
               /\ saveCall'.notified = 1
                    <=> (modal.tool # 0 /\ ~NoRequiredMissing(modal.currentParams))]_vars
    /\ [][SaveSettled
            => /\ saveCall'.onSave = 1 <=> saveCall'.outcome = "ok"
               /\ saveCall'.outcome \in {"fail", "throw"} => saveCall'.notified = 1
               /\ modal'.currentParams = modal.currentParams]_vars

\* a save of the first tool, whose required parameter has an empty default: it was filled
\* in, the update succeeded and onSave was invoked
C22_Witness ==
    /\ saveCall.pc = "done"
    /\ saveCall.onSave = 1
    /\ saveCall.outcome = "ok"
    /\ saveCall.tool = 1
    /\ Len(modal.currentParams) = 2
    /\ modal.currentParams[1].value = "v"

\* C23: when a load for a tool completes, currentParams has the parameters of that tool's
\* initParams in their order; a value is the saved one where the answer is a success
\* whose saved params define the parameter, and the default of the parameter otherwise
\* (no saved params, a failure answer, an exception); isLoading is then false.
C23_LoadedParamsSavedOrDefault ==
    loadCall.outcome # "none"
        => LET T == ModalTools[loadCall.tool]
           IN  /\ Len(modal.currentParams) = Len(T)
               /\ \A k \in 1..Len(T) :
                      /\ modal.currentParams[k].required = T[k].required
                      /\ modal.currentParams[k].value =
                            IF loadCall.outcome = "ok" /\ loadCall.saved[k] # "undefined"
                            THEN loadCall.saved[k] ELSE T[k].value
               /\ ~modal.isLoading

\* saved params that define the first parameter (as null) and not the second
C23_Witness ==
    /\ loadCall.outcome = "ok"
    /\ loadCall.tool = 1
    /\ loadCall.saved[1] = "null"
    /\ loadCall.saved[2] = "undefined"
    /\ modal.currentParams[1].value = "null"
    /\ modal.currentParams[2].value = "v"

\* C24: onDelete is invoked only by confirmDelete, with the id of the most recent
\* handleDeleteClick; while the delete confirmation dialog is open dialogToDelete is not
\* null; after a confirm the dialog is closed and dialogToDelete is null; cancelling
\* invokes no onDelete.
C24_DeleteOnlyConfirmedTarget ==
    /\ sidebarCall.onDelete # <<>>
          => /\ sidebarCall.handler = "confirmDelete"
             /\ sidebarCall.clicked # "null"
             /\ sidebarCall.onDelete = <<sidebarCall.clicked>>
    /\ sidebar.isDeleteDialogOpen => sidebar.dialogToDelete # "null"
    /\ sidebarCall.handler = "confirmDelete"
          => ~sidebar.isDeleteDialogOpen /\ sidebar.dialogToDelete = "null"
    /\ sidebarCall.handler = "cancelDelete"
          => sidebarCall.onDelete = <<>> /\ ~sidebar.isDeleteDialogOpen

\* the conversation with id 0 was clicked last and its deletion confirmed
C24_Witness ==
    /\ sidebarCall.handler = "confirmDelete"
    /\ sidebarCall.onDelete = <<"0">>
    /\ sidebarCall.clicked = "0"
    /\ ~sidebar.isDeleteDialogOpen
    /\ sidebar.dialogToDelete = "null"

RenameInvoked ==
    sidebarCall'.onRename # <<>> /\ sidebarCall'.renames = sidebarCall.renames + 1

SubmitCalled ==
    \/ sidebarCall'.handler = "handleSubmitEdit"
    \/ sidebarCall'.handler = "handleKeyDown" /\ sidebarCall'.key = "Enter"

\* the title without the blanks at its ends
Stripped(title, t) ==
    /\ Len(t) > 0
    /\ t[1] # " "
    /\ t[Len(t)] # " "
    /\ \E before, after \in 0..Len(title) :
          /\ before + Len(t) + after = Len(title)
          /\ \A k \in 1..Len(title) :
                IF k <= before \/ k > before + Len(t) THEN title[k] = " "
                ELSE title[k] = t[k - before]

\* C25: onRename is invoked only while an edit is active, with the id being edited and
\* the title without the blanks at its ends, which is not empty, and the call ends the
\* edit; it is invoked at most once between a handleStartEdit and the end of that edit,
\* whatever Enter, blur and Escape events come; a submit (Enter or blur) of a blank title
\* leaves the sidebar state as it is and invokes nothing; Escape ends the edit and
\* invokes no onRename.
C25_RenameOncePerEdit ==
    /\ [](sidebarCall.renames <= 1)
    /\ []((sidebarCall.handler = "handleKeyDown" /\ sidebarCall.key = "Escape")
             => sidebar.editingId = "null" /\ sidebarCall.onRename = <<>>)
    /\ [][RenameInvoked
            => /\ sidebar.editingId # "null"
               /\ sidebarCall'.onRename[1] = sidebar.editingId
               /\ Stripped(sidebar.editingTitle, sidebarCall'.onRename[2])
               /\ SubmitCalled
               /\ sidebar'.editingId = "null"]_vars
    /\ [][(/\ SubmitCalled
           /\ sidebar.editingId # "null"
           /\ \A k \in 1..Len(sidebar.editingTitle) : sidebar.editingTitle[k] = " ")
            => sidebar' = sidebar /\ sidebarCall'.onRename = <<>>]_vars

\* the edit of conversation 0 ended by a blur with a title that had a blank in front
C25_Witness ==
    /\ sidebarCall.handler = "handleSubmitEdit"
    /\ sidebarCall.onRename = <<"0", <<"a">> >>
    /\ sidebarCall.renames = 1
    /\ sidebar.editingTitle = <<" ", "a">>
    /\ sidebar.editingId = "null"

InGroup(list, id) == \E k \in 1..Len(list) : list[k].conversation_id = id

Occurrences(list, id) == Cardinality({k \in 1..Len(list) : list[k].conversation_id = id})

InOrder(list) ==
    \A j, k \in 1..Len(list) : j < k => list[j].conversation_id < list[k].conversation_id

\* C26: categorizeDialogs puts every conversation of the list, as it is, once in exactly
\* one of today, week and older: today if its update time (its create time when it has no
\* update time) is at or after the start of today, week if it is earlier than that and at
\* or after the start of today minus 7 days, older otherwise; each group lists its
\* conversations in the order they have in the input.
C26_PartitionByTimeInOrder ==
    catCall.done
        => /\ \A k \in 1..Len(catCall.dialogs) :
                LET d == catCall.dialogs[k]
                    t == IF d.update_time = 0 THEN d.create_time ELSE d.update_time
                IN  /\ Occurrences(catCall.today, k) + Occurrences(catCall.week, k)
                          + Occurrences(catCall.older, k) = 1
                    /\ InGroup(catCall.today, k) <=> t >= Today
                    /\ InGroup(catCall.week, k) <=> (t < Today /\ t >= Today - 7)
                    /\ InGroup(catCall.older, k) <=> t < Today - 7
           /\ \A g \in {catCall.today, catCall.week, catCall.older} :
                /\ InOrder(g)
                /\ \A k \in 1..Len(g) : g[k] = catCall.dialogs[g[k].conversation_id]
           /\ Len(catCall.today) + Len(catCall.week) + Len(catCall.older) = Len(catCall.dialogs)

\* two conversations of the week, the first exactly 7 days before the start of today by
\* its create time, for want of an update time
C26_Witness ==
    /\ catCall.done
    /\ Len(catCall.dialogs) = 2
    /\ catCall.dialogs[1].update_time = 0
    /\ catCall.dialogs[1].create_time = WeekAgo
    /\ catCall.dialogs[2].update_time = Today - 1
    /\ catCall.dialogs[2].create_time = WeekAgo - 1
    /\ Len(catCall.week) = 2
    /\ catCall.week[1].conversation_id = 1

NotBlank(text) == \E k \in 1..Len(text) : text[k] # " "

\* C27: GuideSteps shows the supplied currentStep when it is a number; otherwise the step
\* shown is in 0..4 and is the first that applies of: 4 if the system prompt is not
\* empty, 3 if the business logic is not empty, 2 if a tool is selected, 1 if (creating
\* mode) the agent name and the agent description are both not blank or (normal mode) an
\* agent is selected, else 0.
C27_StepShown ==
    guideCall.done
        => IF guideCall.currentStep # <<>>
           THEN guideCall.step = guideCall.currentStep[1]
           ELSE /\ guideCall.step \in 0..4
                /\ guideCall.step = 4 <=> Len(guideCall.systemPrompt) > 0
                /\ guideCall.step = 3
                      <=> (Len(guideCall.systemPrompt) = 0 /\ Len(guideCall.businessLogic) > 0)
                /\ guideCall.step = 2
                      <=> /\ Len(guideCall.systemPrompt) = 0
                          /\ Len(guideCall.businessLogic) = 0
                          /\ guideCall.selectedTools >= 1
                /\ guideCall.step = 1
                      <=> /\ Len(guideCall.systemPrompt) = 0
                          /\ Len(guideCall.businessLogic) = 0
                          /\ guideCall.selectedTools = 0
                          /\ IF guideCall.isCreatingNewAgent
                             THEN NotBlank(guideCall.agentName)
                                      /\ NotBlank(guideCall.agentDescription)
                             ELSE guideCall.selectedAgents >= 1

\* creating mode, nothing but the basic information, and the name has a blank in front
C27_Witness ==
    /\ guideCall.done
    /\ guideCall.currentStep = <<>>
    /\ guideCall.isCreatingNewAgent
    /\ guideCall.agentName = <<" ", "a">>
    /\ guideCall.agentDescription = <<"a">>
    /\ guideCall.selectedAgents = 0
    /\ guideCall.step = 1

====
